---- MODULE Spec2Model ----
(***************************************************************************)
(* Model of SemanticCorruptionDetector                                     *)
(* (src/.github/actions/data-semantic-guard/detector.js).                  *)
(*                                                                         *)
(* One detector instance: its comparisonType, anomalies and confidence     *)
(* fields, the methods analyze, generateDiagnostics and calculateStats as  *)
(* atomic actions (the code is synchronous), and the values they return.   *)
(*                                                                         *)
(* JavaScript numbers are modelled as signed extended rationals            *)
(* [s, n, d]: sign s, magnitude n/d with n, d >= 0;  d = 0 and n > 0 is    *)
(* +-Infinity, n = d = 0 is NaN, n = 0 and d > 0 is +-0.  Comparisons are  *)
(* decided by cross-multiplication, which is exact.  Where the inputs drawn *)
(* below sit on a threshold (a ratio of exactly 10, 0.1, 2, 0.5 or 0.2) the *)
(* double-precision quotient is the literal's own double, so the code's    *)
(* comparison decides as the exact one does.                               *)
(***************************************************************************)
EXTENDS Integers, Sequences, FiniteSets

VARIABLES
    comparisonType,     \* this.comparisonType
    anomalies,          \* this.anomalies
    confidence,         \* this.confidence
    called,             \* the method that ran last
    baselineStats,      \* analyze's first argument
    currentStats,       \* analyze's second argument
    magnitudeResult,    \* analyze's locals, as left by the last call
    conversionResult,
    distributionResult,
    rangeResult,
    confidenceScores,
    result,             \* what analyze returned
    diagnostics,        \* what generateDiagnostics returned
    priorAnomalies,     \* history: the last analyze call found the list non-empty
    data,               \* calculateStats's argument
    stats,              \* what calculateStats returned (or the error thrown)
    anomaliesId,        \* the identity of the array this.anomalies refers to
    held,               \* a result the caller keeps from an analyze call
    heldList            \* what the array held.anomalies refers to contains now

vars == << comparisonType, anomalies, confidence, called, baselineStats,
           currentStats, magnitudeResult, conversionResult,
           distributionResult, rangeResult, confidenceScores, result,
           diagnostics, priorAnomalies, data, stats, anomaliesId, held,
           heldList >>

(***************************************************************************)
(* Numbers                                                                 *)
(***************************************************************************)
AbsInt(i) == IF i < 0 THEN -i ELSE i

SignInt(i) == IF i < 0 THEN -1 ELSE 1

MinInt(a, b) == IF a < b THEN a ELSE b

MaxInt(a, b) == IF a > b THEN a ELSE b

FromInt(i) == [s |-> SignInt(i), n |-> AbsInt(i), d |-> 1]

NaN == [s |-> 1, n |-> 0, d |-> 0]

Infinity == [s |-> 1, n |-> 1, d |-> 0]

IsNaN(x) == x.n = 0 /\ x.d = 0

IsInf(x) == x.n > 0 /\ x.d = 0

\* isFinite(x)
IsFinite(x) == x.d > 0

\* x === 0 (true of +0 and -0)
IsZero(x) == x.n = 0 /\ x.d > 0

\* x / y, IEEE-754: finite/0 is an infinity, 0/0 and Inf/Inf are NaN
Div(x, y) == [s |-> x.s * y.s, n |-> x.n * y.d, d |-> x.d * y.n]

\* -x
Neg(x) == [x EXCEPT !.s = -x.s]

\* Math.abs(x)
Abs(x) == [x EXCEPT !.s = 1]

\* x + y, IEEE-754: Inf + (-Inf) is NaN
Add(x, y) ==
    IF IsNaN(x) \/ IsNaN(y) THEN NaN
    ELSE IF IsInf(x) /\ IsInf(y) THEN (IF x.s = y.s THEN x ELSE NaN)
    ELSE IF IsInf(x) THEN x
    ELSE IF IsInf(y) THEN y
    ELSE LET num == x.s * x.n * y.d + y.s * y.n * x.d
         IN  [s |-> IF num = 0 THEN (IF x.s = -1 /\ y.s = -1 THEN -1 ELSE 1)
                    ELSE SignInt(num),
              n |-> AbsInt(num), d |-> x.d * y.d]

\* x - y
Sub(x, y) == Add(x, Neg(y))

\* x < p/q and x > p/q for a rational literal p/q, q > 0 (false of NaN)
Lt(x, p, q) == x.s * x.n * q < p * x.d

Gt(x, p, q) == x.s * x.n * q > p * x.d

\* x <= y (false when either is NaN)
Le(x, y) ==
    /\ ~IsNaN(x)
    /\ ~IsNaN(y)
    /\ IF IsInf(x) /\ IsInf(y) THEN x.s <= y.s
       ELSE x.s * x.n * y.d <= y.s * y.n * x.d

\* Math.abs(Math.log10(Math.abs(x))) > 0.5: |x| above 10^0.5 or below
\* 10^-0.5, that is x^2 > 10 or 10 x^2 < 1; log10(0) is -Infinity, log10 of
\* NaN is NaN
LogRatioAboveHalf(x) == x.n * x.n > 10 * x.d * x.d \/ 10 * x.n * x.n < x.d * x.d

\* Math.abs(x - expected) / expected < tolerance, for expected = en/ed > 0
\* and tolerance = tn/td
RelErrorBelow(x, en, ed, tn, td) ==
    AbsInt(x.s * x.n * ed - en * x.d) * td < tn * en * x.d

(***************************************************************************)
(* The heuristic table (constructor)                                       *)
(***************************************************************************)
\* this.conversionHeuristics; ratio and tolerance as fractions:
\* 83.0, 150.0, 1.8 = 9/5, 3.28084 = 82021/25000; 0.15 = 3/20, 0.1 = 1/10,
\* 0.05 = 1/20, 0.2 = 1/5
conversionHeuristics ==
    [ currency_usd_to_inr |->
        [hasRatio |-> TRUE, ratioN |-> 83, ratioD |-> 1, tolN |-> 3, tolD |-> 20,
         description |-> "USD to INR conversion"],
      currency_usd_to_jpy |->
        [hasRatio |-> TRUE, ratioN |-> 150, ratioD |-> 1, tolN |-> 3, tolD |-> 20,
         description |-> "USD to JPY conversion"],
      temperature_c_to_f |->
        [hasRatio |-> TRUE, ratioN |-> 9, ratioD |-> 5, tolN |-> 1, tolD |-> 10,
         description |-> "Celsius to Fahrenheit"],
      length_m_to_ft |->
        [hasRatio |-> TRUE, ratioN |-> 82021, ratioD |-> 25000, tolN |-> 1, tolD |-> 20,
         description |-> "Meters to Feet"],
      custom_numeric_distribution |->
        [hasRatio |-> FALSE, ratioN |-> 0, ratioD |-> 1, tolN |-> 1, tolD |-> 5,
         description |-> "Generic numeric distribution"] ]

\* The table is a plain object: a key it does not own but Object.prototype
\* does ("toString") looks up to an inherited member, which is truthy and
\* has neither ratio nor description.
InheritedKeys == {"toString"}

InheritedMember ==
    [hasRatio |-> FALSE, ratioN |-> 0, ratioD |-> 1, tolN |-> 0, tolD |-> 1,
     description |-> "undefined"]

\* the value of `undefined` for a failed lookup
Undefined ==
    [hasRatio |-> FALSE, ratioN |-> 0, ratioD |-> 1, tolN |-> 0, tolD |-> 1,
     description |-> "<no heuristic>"]

\* this.conversionHeuristics[this.comparisonType]
Heuristic(ct) ==
    IF ct \in DOMAIN conversionHeuristics THEN conversionHeuristics[ct]
    ELSE IF ct \in InheritedKeys THEN InheritedMember
    ELSE Undefined

\* the truthiness of the looked-up heuristic (`!heuristic`, `if (heuristic)`)
HeuristicTruthy(ct) == ct \in DOMAIN conversionHeuristics \/ ct \in InheritedKeys

(***************************************************************************)
(* Sub-detectors.  Each takes this.comparisonType where it reads it, the   *)
(* anomaly list as it stands, and the two summaries; it returns what the   *)
(* method returns (detected, confidence) and the anomaly list it leaves.   *)
(* An anomaly is its message's wording (kind, desc) and the number the     *)
(* message prints (val).                                                   *)
(***************************************************************************)
Anomaly(kind, desc, val) == [kind |-> kind, desc |-> desc, val |-> val]

\* return { detected: false, confidence: 0 }
NotDetected(anoms) == [detected |-> FALSE, confidence |-> 0, anomalies |-> anoms]

\* this.anomalies.push(...); return { detected: true, confidence: conf }
Detected(anoms, a, conf) ==
    [detected |-> TRUE, confidence |-> conf, anomalies |-> Append(anoms, a)]

\* MagnitudeTier with the last tier's band narrowed to ratio < 0.2 or > 5
MagnitudeTierNarrow(anoms, ratio) ==
    IF Lt(ratio, 1, 10)
      THEN Detected(anoms, Anomaly("Severe magnitude drop", "", ratio), 95)
    ELSE IF Gt(ratio, 10, 1)
      THEN Detected(anoms, Anomaly("Severe magnitude increase", "", ratio), 95)
    ELSE IF Lt(ratio, 1, 5) \/ Gt(ratio, 5, 1)
      THEN Detected(anoms, Anomaly("Significant magnitude shift", "", ratio), 70)
    ELSE NotDetected(anoms)

\* the severity tiers inside the log-threshold branch
MagnitudeTier(anoms, ratio) ==
    IF Lt(ratio, 1, 10)
      THEN Detected(anoms, Anomaly("Severe magnitude drop", "", ratio), 95)
    ELSE IF Gt(ratio, 10, 1)
      THEN Detected(anoms, Anomaly("Severe magnitude increase", "", ratio), 95)
    ELSE IF Lt(ratio, 1, 2) \/ Gt(ratio, 2, 1)
      THEN Detected(anoms, Anomaly("Significant magnitude shift", "", ratio), 70)
    ELSE NotDetected(anoms)

\* detectMagnitudeShift without the baselineMean === 0 guard
detectMagnitudeShiftUnguarded(anoms, baseline, current) ==
    LET ratio == Div(current.mean, baseline.mean)
    IN  IF LogRatioAboveHalf(ratio) THEN MagnitudeTier(anoms, ratio)
        ELSE NotDetected(anoms)

detectMagnitudeShift(anoms, baseline, current) ==
    LET baselineMean == baseline.mean
        currentMean == current.mean
        ratio == Div(currentMean, baselineMean)
    IN  IF IsZero(baselineMean) THEN NotDetected(anoms)
        ELSE IF LogRatioAboveHalf(ratio) THEN MagnitudeTier(anoms, ratio)
        ELSE NotDetected(anoms)

\* ConversionMatch without the inverse check
ConversionMatchForwardOnly(anoms, heuristic, ratio) ==
    IF RelErrorBelow(ratio, heuristic.ratioN, heuristic.ratioD,
                     heuristic.tolN, heuristic.tolD)
      THEN Detected(anoms,
                    Anomaly("Possible conversion", heuristic.description, ratio), 90)
    ELSE NotDetected(anoms)

\* the forward check, then the inverse check
ConversionMatch(anoms, heuristic, ratio) ==
    LET inverseRatio == Div(FromInt(1), ratio)
    IN  IF RelErrorBelow(ratio, heuristic.ratioN, heuristic.ratioD,
                         heuristic.tolN, heuristic.tolD)
          THEN Detected(anoms,
                        Anomaly("Possible conversion", heuristic.description, ratio), 90)
        ELSE IF RelErrorBelow(inverseRatio, heuristic.ratioN, heuristic.ratioD,
                              heuristic.tolN, heuristic.tolD)
          THEN Detected(anoms,
                        Anomaly("Possible inverse conversion", heuristic.description,
                                inverseRatio), 90)
        ELSE NotDetected(anoms)

detectUnitConversion(ct, anoms, baseline, current) ==
    LET heuristic == Heuristic(ct)
        baselineMean == baseline.mean
        currentMean == current.mean
        ratio == Div(currentMean, baselineMean)
    IN  IF ~HeuristicTruthy(ct) \/ ~heuristic.hasRatio THEN NotDetected(anoms)
        ELSE IF IsZero(baselineMean) THEN NotDetected(anoms)
        ELSE ConversionMatch(anoms, heuristic, ratio)

\* the median/mean comparison, reached when the CV check did not return
SkewCheck(anoms, baseline, current) ==
    LET baselineMedianMeanRatio == Div(baseline.median, baseline.mean)
        currentMedianMeanRatio == Div(current.median, current.mean)
        medianMeanShift == Abs(Sub(currentMedianMeanRatio, baselineMedianMeanRatio))
    IN  IF Gt(medianMeanShift, 1, 5)
          THEN Detected(anoms,
                        Anomaly("Distribution skew changed", "", medianMeanShift), 55)
        ELSE NotDetected(anoms)

\* detectDistributionShift without the early return after the CV check
detectDistributionShiftBoth(anoms, baseline, current) ==
    LET baselineCV == Div(baseline.std_dev, baseline.mean)
        currentCV == Div(current.std_dev, current.mean)
        cvRatio == Div(currentCV, baselineCV)
        change == IF Gt(cvRatio, 1, 1) THEN "increase" ELSE "decrease"
        cv == Detected(anoms, Anomaly("Distribution variability", change, cvRatio), 60)
        skew == SkewCheck(cv.anomalies, baseline, current)
    IN  IF ~IsFinite(baselineCV) \/ ~IsFinite(currentCV) THEN NotDetected(anoms)
        ELSE IF Gt(cvRatio, 2, 1) \/ Lt(cvRatio, 1, 2)
          THEN [detected |-> TRUE, confidence |-> 60, anomalies |-> skew.anomalies]
        ELSE SkewCheck(anoms, baseline, current)

detectDistributionShift(anoms, baseline, current) ==
    LET baselineCV == Div(baseline.std_dev, baseline.mean)
        currentCV == Div(current.std_dev, current.mean)
        cvRatio == Div(currentCV, baselineCV)
        change == IF Gt(cvRatio, 1, 1) THEN "increase" ELSE "decrease"
    IN  IF ~IsFinite(baselineCV) \/ ~IsFinite(currentCV) THEN NotDetected(anoms)
        ELSE IF Gt(cvRatio, 2, 1) \/ Lt(cvRatio, 1, 2)
          THEN Detected(anoms,
                        Anomaly("Distribution variability", change, cvRatio), 60)
        ELSE SkewCheck(anoms, baseline, current)

detectRangeAnomaly(anoms, baseline, current) ==
    LET baselineRange == Sub(baseline.max, baseline.min)
        currentRange == Sub(current.max, current.min)
        rangeRatio == Div(currentRange, baselineRange)
    IN  IF IsZero(baselineRange) THEN NotDetected(anoms)
        ELSE IF Gt(rangeRatio, 5, 1)
          THEN Detected(anoms,
                        Anomaly("Data range expanded significantly", "", rangeRatio), 65)
        ELSE IF Lt(rangeRatio, 1, 5)
          THEN Detected(anoms,
                        Anomaly("Data range contracted significantly", "", rangeRatio), 65)
        ELSE NotDetected(anoms)

(***************************************************************************)
(* analyze                                                                 *)
(***************************************************************************)
\* ResetAnomalies that keeps the list
KeepAnomalies(anoms) == anoms

\* this.anomalies = []
ResetAnomalies(anoms) == << >>

\* PushIfDetected that pushes every sub-detector's confidence
PushAlways(scores, r) == Append(scores, r.confidence)

\* if (r.detected) confidenceScores.push(r.confidence)
PushIfDetected(scores, r) == IF r.detected THEN Append(scores, r.confidence) ELSE scores

\* Math.max(...confidenceScores), for a non-empty list
RECURSIVE MathMax(_)
MathMax(scores) ==
    IF Len(scores) = 1 THEN scores[1]
    ELSE MaxInt(scores[1], MathMax(Tail(scores)))

\* Boost counting every signal, not every signal beyond the first
BoostPerSignal(scores) == MinInt(Len(scores) * 5, 15)

\* the multi-signal boost
Boost(scores) == MinInt((Len(scores) - 1) * 5, 15)

\* Aggregate without the clamp to 100
AggregateUnclamped(scores) ==
    IF Len(scores) = 0 THEN 0
    ELSE IF Len(scores) = 1 THEN scores[1]
    ELSE MathMax(scores) + Boost(scores)

\* the confidence aggregation
Aggregate(scores) ==
    IF Len(scores) = 0 THEN 0
    ELSE IF Len(scores) = 1 THEN scores[1]
    ELSE MinInt(MathMax(scores) + Boost(scores), 100)

\* The whole call: the four sub-detectors in turn on the instance's list,
\* the scores collected, the confidence set, the result built.
Analyze(ct, anoms, baseline, current) ==
    LET a0 == ResetAnomalies(anoms)
        mag == detectMagnitudeShift(a0, baseline, current)
        s1 == PushIfDetected(<< >>, mag)
        conv == detectUnitConversion(ct, mag.anomalies, baseline, current)
        s2 == PushIfDetected(s1, conv)
        dist == detectDistributionShift(conv.anomalies, baseline, current)
        s3 == PushIfDetected(s2, dist)
        rng == detectRangeAnomaly(dist.anomalies, baseline, current)
        s4 == PushIfDetected(s3, rng)
        conf == Aggregate(s4)
    IN  [ anomalies |-> rng.anomalies,
          confidence |-> conf,
          magnitudeResult |-> [detected |-> mag.detected, confidence |-> mag.confidence],
          conversionResult |-> [detected |-> conv.detected, confidence |-> conv.confidence],
          distributionResult |-> [detected |-> dist.detected, confidence |-> dist.confidence],
          rangeResult |-> [detected |-> rng.detected, confidence |-> rng.confidence],
          confidenceScores |-> s4,
          result |-> [confidence |-> conf, anomalies |-> rng.anomalies,
                      detected |-> Len(rng.anomalies) > 0] ]

(***************************************************************************)
(* calculateStats                                                          *)
(***************************************************************************)
\* Number.MAX_VALUE, scaled down: the largest finite number.  A sum beyond it
\* overflows to an infinity, as an IEEE-754 sum beyond 1.797e308 does.
MAX_VALUE == 2

\* the longest observation sequence drawn
MaxLen == 5

\* x + y in floating point: Add, overflowing beyond MAX_VALUE
FAdd(x, y) ==
    LET r == Add(x, y)
    IN  IF IsFinite(r) /\ r.n > MAX_VALUE * r.d
          THEN (IF r.s = 1 THEN Infinity ELSE Neg(Infinity))
        ELSE r

\* sorted insertion of v, for the comparator (a, b) => a - b
RECURSIVE Insert(_, _)
Insert(sorted, v) ==
    IF sorted = << >> THEN << v >>
    ELSE IF v - Head(sorted) < 0 THEN << v >> \o sorted
    ELSE << Head(sorted) >> \o Insert(Tail(sorted), v)

\* [...data].sort((a, b) => a - b)
RECURSIVE SortAscending(_)
SortAscending(values) ==
    IF values = << >> THEN << >>
    ELSE Insert(SortAscending(SubSeq(values, 1, Len(values) - 1)), values[Len(values)])

\* data.reduce((sum, val) => sum + val, 0)
RECURSIVE ReduceSum(_)
ReduceSum(values) ==
    IF values = << >> THEN FromInt(0)
    ELSE FAdd(ReduceSum(SubSeq(values, 1, Len(values) - 1)), FromInt(values[Len(values)]))

\* the median of the sorted copy (indices are 1-based here, 0-based there)
Median(sorted, n) ==
    IF n % 2 = 0
      THEN Div(FAdd(FromInt(sorted[n \div 2]), FromInt(sorted[n \div 2 + 1])), FromInt(2))
    ELSE FromInt(sorted[n \div 2 + 1])

\* sorted[Math.floor(n * 0.25)] and sorted[Math.floor(n * 0.75)]
Percentile25(sorted, n) == FromInt(sorted[n \div 4 + 1])

Percentile75(sorted, n) == FromInt(sorted[(3 * n) \div 4 + 1])

\* throw new Error('Cannot calculate statistics on empty data')
EmptyInputError ==
    [error |-> "Cannot calculate statistics on empty data", mean |-> NaN,
     median |-> NaN, min |-> NaN, max |-> NaN, p25 |-> NaN, p75 |-> NaN, count |-> 0]

\* The summary returned.  variance and std_dev (the mean of the squared
\* deviations and its square root, which is irrational in general) are left
\* out: nothing below reads them from a computed summary.
CalculateStats(values) ==
    IF Len(values) = 0 THEN EmptyInputError
    ELSE LET sorted == SortAscending(values)
             n == Len(values)
         IN  [error |-> "",
              mean |-> Div(ReduceSum(values), FromInt(n)),
              median |-> Median(sorted, n),
              min |-> FromInt(sorted[1]),
              max |-> FromInt(sorted[n]),
              p25 |-> Percentile25(sorted, n),
              p75 |-> Percentile75(sorted, n),
              count |-> n]

(***************************************************************************)
(* generateDiagnostics                                                     *)
(***************************************************************************)
\* Banner with strict comparisons
BannerStrict(conf) ==
    IF conf > 90 THEN "HIGH CONFIDENCE: Silent data corruption detected"
    ELSE IF conf > 70 THEN "MEDIUM CONFIDENCE: Suspicious data patterns detected"
    ELSE IF conf > 50 THEN "LOW CONFIDENCE: Minor anomalies detected"
    ELSE "No significant semantic drift detected"

\* the headline banner
Banner(conf) ==
    IF conf >= 90 THEN "HIGH CONFIDENCE: Silent data corruption detected"
    ELSE IF conf >= 70 THEN "MEDIUM CONFIDENCE: Suspicious data patterns detected"
    ELSE IF conf >= 50 THEN "LOW CONFIDENCE: Minor anomalies detected"
    ELSE "No significant semantic drift detected"

\* the five fixed hints under "Common causes:"
CommonCauses ==
    << "Unit conversion (currency, temperature, length)",
       "Locale/region change in data source",
       "Schema migration without data transformation",
       "Upstream API changes",
       "Data aggregation level changes" >>

\* The report, by its parts in the order they are joined: the banner; the
\* "Analysis type" line (a sequence of zero or one descriptions); under
\* "Detected anomalies:" the numbered anomalies; the hints.  hasList says
\* whether the two headed sections were written at all.
GenerateDiagnostics(ct, anoms, conf) ==
    [ banner |-> Banner(conf),
      analysisType |-> IF HeuristicTruthy(ct) THEN << Heuristic(ct).description >>
                       ELSE << >>,
      hasList |-> Len(anoms) > 0,
      numbered |-> IF Len(anoms) > 0
                   THEN [idx \in 1..Len(anoms) |-> [number |-> idx, anomaly |-> anoms[idx]]]
                   ELSE << >>,
      causes |-> IF Len(anoms) > 0 THEN CommonCauses ELSE << >> ]

(***************************************************************************)
(* Inputs                                                                  *)
(***************************************************************************)
\* Comparison-type labels: the five keys of the table, a label that is no
\* key, and a label that names an inherited member.
Labels == DOMAIN conversionHeuristics \cup {"unknown_label"} \cup InheritedKeys

\* A summary with integer fields
Summary(mean, median, std_dev, min, max) ==
    [mean |-> FromInt(mean), median |-> FromInt(median), std_dev |-> FromInt(std_dev),
     min |-> FromInt(min), max |-> FromInt(max)]

\* A summary whose fields are all NaN
NaNSummary == [mean |-> NaN, median |-> NaN, std_dev |-> NaN, min |-> NaN, max |-> NaN]

\* The summaries analyze is called with.  Between them, current.mean /
\* baseline.mean falls in every band of the magnitude detector (negative, 0,
\* 0.1, 0.3, 1, 1.8, 3, 3.33, 10, 18, 83, 150) and on the conversion ratios
\* 83, 150, 1.8 and 3.33 and their inverses; the coefficients of variation, the
\* median/mean ratios and the ranges differ by more and by less than the
\* thresholds; means, standard deviations and ranges of 0 and NaN occur.
Summaries ==
    { Summary(0, 0, 0, 0, 0),           \* all observations 0
      Summary(0, 0, 1, -1, 1),          \* symmetric about 0
      Summary(-1, -1, 0, -1, -1),       \* all observations -1
      Summary(1, 1, 0, 1, 1),           \* all observations 1
      Summary(1, 1, 1, 0, 2),
      Summary(3, 3, 0, 3, 3),
      Summary(10, 10, 0, 10, 10),
      Summary(10, 10, 5, 5, 15),
      Summary(18, 18, 9, 9, 27),        \* the one above, times 1.8
      Summary(10, 10, 20, -10, 30),     \* four times the spread
      Summary(10, 7, 5, 5, 25),         \* skewed
      Summary(10, 10, 5, 0, 60),        \* six times the range
      Summary(83, 83, 0, 83, 83),
      Summary(83, 83, 10, 60, 100),
      Summary(150, 150, 0, 150, 150),
      NaNSummary }

(***************************************************************************)
(* The instance and its operations                                         *)
(***************************************************************************)
NoSummary == [mean |-> NaN, median |-> NaN, std_dev |-> NaN, min |-> NaN, max |-> NaN]

NoSubResult == [detected |-> FALSE, confidence |-> 0]

\* nothing returned yet
NoResult == [confidence |-> -1, anomalies |-> << >>, detected |-> FALSE]

NoDiagnostics ==
    [banner |-> "", analysisType |-> << >>, hasList |-> FALSE, numbered |-> << >>,
     causes |-> << >>]

NoStats ==
    [error |-> "", mean |-> NaN, median |-> NaN, min |-> NaN, max |-> NaN,
     p25 |-> NaN, p75 |-> NaN, count |-> 0]

\* Array identities.  An array is told from another by its identity, not by
\* what it contains.  Two arrays matter at a time, the one this.anomalies
\* refers to and the one a kept result refers to, so two identities are
\* enough; the identity of an array nothing refers to any more is free again.
ListIds == {0, 1}

\* the caller keeps no result; -1 is the identity of no array
NoHeld ==
    [confidence |-> -1, anomalies |-> -1, detected |-> FALSE,
     returned |-> << >>, superseded |-> FALSE]

\* NewList that clears the array the instance has and keeps it
\* (this.anomalies.length = 0)
ClearInPlace(id, heldId) == id

\* this.anomalies = []: a new array, which is not the array heldId a kept
\* result refers to.  The array id the instance had is left as it is; unless
\* the kept result refers to it, nothing does any more and its identity is
\* free for the new array.
NewList(id, heldId) ==
    CHOOSE i \in ListIds \ {heldId} : \A j \in ListIds \ {heldId} : i <= j

\* new SemanticCorruptionDetector(comparisonType)
Constructed ==
    /\ comparisonType \in Labels
    /\ anomalies = << >>
    /\ confidence = 0
    /\ called = "constructor"
    /\ baselineStats = NoSummary
    /\ currentStats = NoSummary
    /\ magnitudeResult = NoSubResult
    /\ conversionResult = NoSubResult
    /\ distributionResult = NoSubResult
    /\ rangeResult = NoSubResult
    /\ confidenceScores = << >>
    /\ result = NoResult
    /\ diagnostics = NoDiagnostics
    /\ priorAnomalies = FALSE
    /\ stats = NoStats
    /\ anomaliesId = NewList(NoHeld.anomalies, NoHeld.anomalies)
    /\ held = NoHeld
    /\ heldList = << >>

Init == Constructed /\ data = << >>

\* detector.analyze(baseline, current)
analyze(baseline, current) ==
    \E r \in {Analyze(comparisonType, anomalies, baseline, current)} :
        /\ anomalies' = r.anomalies
        /\ confidence' = r.confidence
        /\ magnitudeResult' = r.magnitudeResult
        /\ conversionResult' = r.conversionResult
        /\ distributionResult' = r.distributionResult
        /\ rangeResult' = r.rangeResult
        /\ confidenceScores' = r.confidenceScores
        /\ result' = r.result
        /\ baselineStats' = baseline
        /\ currentStats' = current
        /\ called' = "analyze"
        /\ diagnostics' = NoDiagnostics
        /\ priorAnomalies' = (Len(anomalies) > 0)
        /\ anomaliesId' = NewList(anomaliesId, held.anomalies)
        \* the kept result sees the pushes of this call if and only if its
        \* array is the one the instance pushes to
        /\ heldList' = IF held.anomalies = anomaliesId' THEN r.anomalies
                       ELSE heldList
        /\ held' = IF held = NoHeld THEN held
                   ELSE [held EXCEPT !.superseded = TRUE]
        /\ UNCHANGED << comparisonType, data, stats >>

\* detector.generateDiagnostics()
generateDiagnostics ==
    /\ diagnostics' = GenerateDiagnostics(comparisonType, anomalies, confidence)
    /\ called' = "generateDiagnostics"
    /\ UNCHANGED << comparisonType, anomalies, confidence, baselineStats,
                    currentStats, magnitudeResult, conversionResult,
                    distributionResult, rangeResult, confidenceScores, result,
                    priorAnomalies, data, stats, anomaliesId, held, heldList >>

Next ==
    \/ \E baseline \in Summaries, current \in Summaries : analyze(baseline, current)
    \/ generateDiagnostics

Spec == Init /\ [][Next]_vars

\* Observation sequences: finite numbers, here the integers up to MAX_VALUE
\* in magnitude, in every order, of length 0 to MaxLen.
Observations == (0 - MAX_VALUE)..MAX_VALUE

RECURSIVE SequencesUpTo(_)
SequencesUpTo(len) ==
    IF len = 0 THEN { << >> }
    ELSE LET shorter == SequencesUpTo(len - 1)
         IN  shorter \cup {Append(q, v) : q \in {x \in shorter : Len(x) = len - 1},
                                          v \in Observations}

\* detector.calculateStats(data): reads and writes no field of the instance
calculateStats ==
    /\ stats' = CalculateStats(data)
    /\ called' = "calculateStats"
    /\ UNCHANGED << comparisonType, anomalies, confidence, baselineStats,
                    currentStats, magnitudeResult, conversionResult,
                    distributionResult, rangeResult, confidenceScores, result,
                    diagnostics, priorAnomalies, data, anomaliesId, held,
                    heldList >>

\* a new detector and the observations its caller has parsed
InitStats == Constructed /\ data \in SequencesUpTo(MaxLen)

NextStats == calculateStats

\* The summarizer alone, on a newly constructed detector
SpecStats == InitStats /\ [][NextStats]_vars

\* const result = detector.analyze(baseline.stats, currentStats): the caller
\* keeps the object analyze has just returned, in place of the one it kept
\* before.  The object's anomalies field is the array this.anomalies refers to.
keepResult ==
    /\ called = "analyze"
    /\ held' = [confidence |-> result.confidence, anomalies |-> anomaliesId,
                detected |-> result.detected, returned |-> result.anomalies,
                superseded |-> FALSE]
    /\ heldList' = anomalies
    /\ UNCHANGED << comparisonType, anomalies, confidence, called, baselineStats,
                    currentStats, magnitudeResult, conversionResult,
                    distributionResult, rangeResult, confidenceScores, result,
                    diagnostics, priorAnomalies, data, stats, anomaliesId >>

\* The summaries of the calls whose results are kept: between them a call
\* finds nothing, a magnitude shift, a conversion, a distribution shift or a
\* range anomaly, alone or together.
KeptSummaries ==
    { Summary(10, 10, 5, 5, 15),
      Summary(18, 18, 9, 9, 27),
      Summary(10, 10, 5, 0, 60),
      Summary(150, 150, 0, 150, 150) }

NextKept ==
    \/ \E baseline \in KeptSummaries, current \in KeptSummaries :
          analyze(baseline, current)
    \/ generateDiagnostics
    \/ keepResult

\* A detector whose caller keeps results across calls
SpecKept == Init /\ [][NextKept]_vars

(***************************************************************************)
(* Properties                                                              *)
(***************************************************************************)
\* an analyze call has returned
Analyzed == result # NoResult

MagnitudeKinds ==
    {"Severe magnitude drop", "Severe magnitude increase", "Significant magnitude shift"}

ConversionKinds == {"Possible conversion", "Possible inverse conversion"}

DistributionKinds == {"Distribution variability", "Distribution skew changed"}

RangeKinds == {"Data range expanded significantly", "Data range contracted significantly"}

\* the positions of the list holding an anomaly of one of the kinds
Entries(anoms, kinds) == {i \in 1..Len(anoms) : anoms[i].kind \in kinds}

\* the sub-detector results of the last call, in calling order
SubResults == << magnitudeResult, conversionResult, distributionResult, rangeResult >>

Fired == {i \in 1..4 : SubResults[i].detected}

SetMax(S) == CHOOSE x \in S : \A y \in S : y <= x

\* current.mean / baseline.mean of the last call
MeanRatio == Div(currentStats.mean, baselineStats.mean)

\* C1: after any sequence of analyze calls the confidence returned and the
\* confidence the instance holds are numbers from 0 to 100.
C1_ConfidenceInRange ==
    /\ confidence \in 0..100
    /\ Analyzed => result.confidence \in 0..100

\* C1 witness: four signals whose maximum plus boost exceeds 100.
C1_Witness ==
    /\ Analyzed
    /\ Len(confidenceScores) = 4
    /\ SetMax({confidenceScores[i] : i \in 1..4}) = 95
    /\ confidence = 100

\* C2: the final confidence is 0 when no sub-detector fired, the one value
\* when exactly one fired, and min(max + min((k-1)*5, 15), 100) when k >= 2
\* fired, over the confidences of the sub-detectors that fired.
C2_Aggregation ==
    Analyzed =>
        LET k == Cardinality(Fired)
            values == {SubResults[i].confidence : i \in Fired}
        IN  /\ Len(confidenceScores) = k
            /\ {confidenceScores[i] : i \in 1..Len(confidenceScores)} = values
            /\ result.confidence = confidence
            /\ k = 0 => confidence = 0
            /\ k = 1 => {confidence} = values
            /\ k >= 2 =>
                 LET boosted == SetMax(values) + (IF (k - 1) * 5 < 15 THEN (k - 1) * 5 ELSE 15)
                 IN  confidence = IF boosted < 100 THEN boosted ELSE 100

\* C2 witness: signals of 70 and 90 aggregated to 95.
C2_Witness ==
    /\ Analyzed
    /\ confidenceScores = << 70, 90 >>
    /\ confidence = 95

\* C3: what analyze returns and leaves in the instance depends only on the
\* comparison type and the two summaries: it is what a newly constructed
\* detector (empty list, confidence 0) returns and holds for them, whatever
\* calls came before.
C3_NoCarryOver ==
    Analyzed =>
        LET fresh == Analyze(comparisonType, << >>, baselineStats, currentStats)
        IN  /\ result = fresh.result
            /\ anomalies = fresh.anomalies
            /\ confidence = fresh.confidence

\* C3 witness: analyze has just run on an instance that held anomalies and
\* has left none.
C3_Witness ==
    /\ called = "analyze"
    /\ priorAnomalies
    /\ anomalies = << >>
    /\ confidence = 0

\* C4: when baseline.mean is 0 the magnitude-shift and the unit-conversion
\* detectors both return not-detected with confidence 0 and append nothing.
C4_ZeroBaselineAbstains ==
    (Analyzed /\ IsZero(baselineStats.mean)) =>
        /\ magnitudeResult = [detected |-> FALSE, confidence |-> 0]
        /\ conversionResult = [detected |-> FALSE, confidence |-> 0]
        /\ Entries(anomalies, MagnitudeKinds \cup ConversionKinds) = {}

\* C4 witness: a zero baseline mean and a non-zero current mean under a
\* comparison type with an expected ratio, with another sub-detector firing.
C4_Witness ==
    /\ called = "analyze"
    /\ IsZero(baselineStats.mean)
    /\ ~IsZero(currentStats.mean) /\ ~IsNaN(currentStats.mean)
    /\ comparisonType = "currency_usd_to_inr"
    /\ rangeResult.detected

\* the summary of a sequence of at least four observations has been returned
Summarized == called = "calculateStats" /\ stats.count >= 4

\* min <= p25 <= median <= p75 <= max in the summary returned
QuartilesOrdered ==
    /\ Le(stats.min, stats.p25)
    /\ Le(stats.p25, stats.median)
    /\ Le(stats.median, stats.p75)
    /\ Le(stats.p75, stats.max)

\* C5: for every observation sequence of length n >= 4 the summary satisfies
\* min <= p25 <= median <= p75 <= max.
C5_QuartileOrder == Summarized => QuartilesOrdered

\* C5, where it does hold: whenever the sum of the two middle elements has
\* not overflowed, the summary is ordered.
C5_OrderedUnlessOverflow == (Summarized /\ IsFinite(stats.median)) => QuartilesOrdered

\* C6: generateDiagnostics reports the state the last analyze call left (the
\* initial state if there was none) and leaves it as it was; the banner is
\* "high confidence" from 90, "medium confidence" from 70 to below 90, "low
\* confidence" from 50 to below 70 and "no significant drift" below 50; the
\* numbered anomaly list and the common-cause hints are there exactly when
\* the anomaly list is non-empty.
C6_Diagnostics ==
    called = "generateDiagnostics" =>
        /\ anomalies = result.anomalies
        /\ confidence = (IF Analyzed THEN result.confidence ELSE 0)
        /\ confidence >= 90 =>
             diagnostics.banner = "HIGH CONFIDENCE: Silent data corruption detected"
        /\ (70 <= confidence /\ confidence < 90) =>
             diagnostics.banner = "MEDIUM CONFIDENCE: Suspicious data patterns detected"
        /\ (50 <= confidence /\ confidence < 70) =>
             diagnostics.banner = "LOW CONFIDENCE: Minor anomalies detected"
        /\ confidence < 50 =>
             diagnostics.banner = "No significant semantic drift detected"
        /\ diagnostics.hasList = (anomalies # << >>)
        /\ Len(diagnostics.numbered) = Len(anomalies)
        /\ \A i \in 1..Len(anomalies) :
             diagnostics.numbered[i] = [number |-> i, anomaly |-> anomalies[i]]
        /\ (diagnostics.causes # << >>) = (anomalies # << >>)

\* C6 witness: a report on a confidence of exactly 90 with one anomaly.
C6_Witness ==
    /\ called = "generateDiagnostics"
    /\ confidence = 90
    /\ Len(anomalies) = 1
    /\ diagnostics.hasList

\* C7: with baseline.mean non-zero the magnitude-shift detector fires only
\* if |log10(|ratio|)| > 0.5, and whenever that holds it records exactly one
\* anomaly: confidence 95 "severe drop" if ratio < 0.1, confidence 95 "severe
\* increase" if ratio > 10, confidence 70 "significant shift" otherwise.
C7_MagnitudeTiers ==
    (Analyzed /\ ~IsZero(baselineStats.mean)) =>
        LET mine == Entries(anomalies, MagnitudeKinds)
        IN  /\ magnitudeResult.detected = LogRatioAboveHalf(MeanRatio)
            /\ Cardinality(mine) = (IF LogRatioAboveHalf(MeanRatio) THEN 1 ELSE 0)
            /\ ~magnitudeResult.detected => magnitudeResult.confidence = 0
            /\ \A i \in mine :
                 IF Lt(MeanRatio, 1, 10)
                   THEN /\ anomalies[i].kind = "Severe magnitude drop"
                        /\ magnitudeResult.confidence = 95
                 ELSE IF Gt(MeanRatio, 10, 1)
                   THEN /\ anomalies[i].kind = "Severe magnitude increase"
                        /\ magnitudeResult.confidence = 95
                 ELSE /\ anomalies[i].kind = "Significant magnitude shift"
                      /\ magnitudeResult.confidence = 70

\* C7 witness: a ratio between 10^0.5 and 5, past the log threshold and in
\* the last tier.
C7_Witness ==
    /\ called = "analyze"
    /\ LogRatioAboveHalf(MeanRatio)
    /\ Gt(MeanRatio, 2, 1) /\ Lt(MeanRatio, 5, 1)
    /\ magnitudeResult = [detected |-> TRUE, confidence |-> 70]

\* the keys of the heuristic table that have an expected ratio
RatioKeys ==
    {"currency_usd_to_inr", "currency_usd_to_jpy", "temperature_c_to_f", "length_m_to_ft"}

\* |x - expected| / expected < tolerance for the comparison type's heuristic
Matches(x) ==
    LET h == conversionHeuristics[comparisonType]
    IN  RelErrorBelow(x, h.ratioN, h.ratioD, h.tolN, h.tolD)

\* C8: the unit-conversion detector fires, with confidence 90 and exactly one
\* anomaly, exactly when the comparison type is a key with an expected ratio,
\* baseline.mean is not 0, and the ratio (forward) or else 1/ratio (inverse)
\* is within tolerance of the expected ratio; otherwise it returns
\* not-detected with confidence 0 and appends nothing.
C8_UnitConversion ==
    Analyzed =>
        LET mine == Entries(anomalies, ConversionKinds)
            forward == Matches(MeanRatio)
            inverse == Matches(Div(FromInt(1), MeanRatio))
            fires == /\ comparisonType \in RatioKeys
                     /\ ~IsZero(baselineStats.mean)
                     /\ (forward \/ inverse)
        IN  /\ conversionResult.detected = fires
            /\ conversionResult.confidence = (IF fires THEN 90 ELSE 0)
            /\ Cardinality(mine) = (IF fires THEN 1 ELSE 0)
            /\ \A i \in mine :
                 anomalies[i].kind = (IF forward THEN "Possible conversion"
                                      ELSE "Possible inverse conversion")

\* C8 witness: the inverse ratio matched and was recorded.
C8_Witness ==
    /\ called = "analyze"
    /\ conversionResult.detected
    /\ \E i \in 1..Len(anomalies) : anomalies[i].kind = "Possible inverse conversion"

\* the two coefficients of variation, their ratio and the median/mean shift
\* of the last call
BaselineCV == Div(baselineStats.std_dev, baselineStats.mean)

CurrentCV == Div(currentStats.std_dev, currentStats.mean)

CVShifted ==
    LET cvRatio == Div(CurrentCV, BaselineCV)
    IN  Gt(cvRatio, 2, 1) \/ Lt(cvRatio, 1, 2)

SkewShifted ==
    Gt(Abs(Sub(Div(currentStats.median, currentStats.mean),
               Div(baselineStats.median, baselineStats.mean))), 1, 5)

\* C9: the distribution-shift detector records at most one anomaly per call:
\* none when either coefficient of variation is non-finite; otherwise the
\* CV-shift anomaly, confidence 60, when cvRatio > 2.0 or < 0.5; otherwise
\* the skew anomaly, confidence 55, when the median/mean ratios differ by
\* more than 0.2; otherwise none.
C9_DistributionShift ==
    Analyzed =>
        LET mine == Entries(anomalies, DistributionKinds)
            finite == IsFinite(BaselineCV) /\ IsFinite(CurrentCV)
            expected == IF ~finite THEN "none"
                        ELSE IF CVShifted THEN "Distribution variability"
                        ELSE IF SkewShifted THEN "Distribution skew changed"
                        ELSE "none"
        IN  /\ Cardinality(mine) <= 1
            /\ distributionResult.detected = (expected # "none")
            /\ distributionResult.confidence =
                 (IF expected = "Distribution variability" THEN 60
                  ELSE IF expected = "Distribution skew changed" THEN 55 ELSE 0)
            /\ (mine = {}) = (expected = "none")
            /\ \A i \in mine : anomalies[i].kind = expected

\* C9 witness: both the CV ratio and the median/mean shift are past their
\* thresholds, and the CV-shift anomaly is the one recorded.
C9_Witness ==
    /\ called = "analyze"
    /\ IsFinite(BaselineCV) /\ IsFinite(CurrentCV)
    /\ CVShifted
    /\ SkewShifted
    /\ distributionResult = [detected |-> TRUE, confidence |-> 60]

\* the sub-detector (1 to 4, in calling order) that writes an anomaly
DetectorOf(a) ==
    IF a.kind \in MagnitudeKinds THEN 1
    ELSE IF a.kind \in ConversionKinds THEN 2
    ELSE IF a.kind \in DistributionKinds THEN 3
    ELSE 4

\* C10: after analyze the anomaly list holds one entry per sub-detector that
\* fired and none for one that abstained, in the order magnitude-shift,
\* unit-conversion, distribution-shift, range-anomaly; it is as long as the
\* list of confidences aggregated (at most 4); detected is true exactly when
\* the returned confidence is above 0.
C10_OneAnomalyPerSignal ==
    Analyzed =>
        /\ {DetectorOf(anomalies[i]) : i \in 1..Len(anomalies)} = Fired
        /\ \A i, j \in 1..Len(anomalies) :
             i < j => DetectorOf(anomalies[i]) < DetectorOf(anomalies[j])
        /\ Len(anomalies) = Len(confidenceScores)
        /\ Len(anomalies) <= 4
        /\ result.anomalies = anomalies
        /\ result.detected = (result.confidence > 0)

\* C10 witness: the magnitude-shift and range-anomaly detectors fired and the
\* two between them abstained.
C10_Witness ==
    /\ called = "analyze"
    /\ Fired = {1, 4}
    /\ Len(anomalies) = 2
    /\ result.detected

\* C11: a result an earlier analyze call returned is left as it was by every
\* later analyze and generateDiagnostics call: its anomalies are the ones
\* returned, its detected flag still says whether it has any, and once another
\* analyze call has run its array is not the instance's, which analyze has
\* replaced by a new one.  The instance's anomalies and confidence are those
\* of the result returned last, whose array is the instance's.
C11_ReturnedResultUnchanged ==
    /\ held # NoHeld =>
          /\ heldList = held.returned
          /\ held.detected = (Len(heldList) > 0)
          /\ held.superseded => held.anomalies # anomaliesId
          /\ ~held.superseded =>
                /\ held.anomalies = anomaliesId
                /\ heldList = anomalies
                /\ held.confidence = confidence
    /\ Analyzed =>
          /\ anomalies = result.anomalies
          /\ confidence = result.confidence

\* C11 witness: the caller keeps a result with anomalies, a later analyze call
\* has found other anomalies, and generateDiagnostics has run since.
C11_Witness ==
    /\ held # NoHeld
    /\ held.superseded
    /\ held.detected
    /\ Len(held.returned) > 0
    /\ anomalies # held.returned
    /\ confidence # held.confidence
    /\ called = "generateDiagnostics"

====
